---- MODULE Spec2Model ----
(***************************************************************************)
(* State-machine model of RelationalSAC (src/algorithms/attention_sac.py): *)
(* the critic / policy update engine, target synchronisation, device and   *)
(* mode management, and checkpointing.                                     *)
(*                                                                         *)
(* Abstractions.  Every network's parameter vector is one integer.  The    *)
(* networks themselves (utils.agents, utils.critics) and torch's Adam are  *)
(* collaborators: the gradient a backward pass deposits is drawn from      *)
(* GradVals, and an optimizer step moves a parameter one unit against the  *)
(* sign of its accumulated gradient (scale_shared_grads and gradient       *)
(* clipping rescale a gradient without changing its sign).  The forward    *)
(* half of update_critic (Bellman target and loss, lines 120-128) is a     *)
(* pure function of the batch and is checked on its own under SpecBellman. *)
(***************************************************************************)
EXTENDS Integers, FiniteSets, Sequences, TLC

\* ---------------------------------------------------------------- bounds
NAgents == 2
MaxIter == 1
PMax == 1
GradMax == 1
MaxEpisode == 1
NActions == 2

\* ------------------------------------------------------ program constants
GammaNum == 95
GammaDen == 100
RewardScale == 10
LoadedEpisode == 29001 + 8200
FreshParam == 0

Agents == 0 .. (NAgents - 1)
Params == (0 - PMax) .. PMax
\* a backward pass deposits a unit gradient
GradVals == {1}
Episodes == 0 .. MaxEpisode
NoEpisode == 0 - 1
DeviceArgs == {"cpu", "gpu", "cuda"}
Devices == {"cpu", "gpu"}
Roles == {"policy", "critic", "target_policy", "target_critic"}

VARIABLES
    policy,              \* [Agents -> Int]  a.policy parameters
    target_policy,       \* [Agents -> Int]  a.target_policy parameters
    critic,              \* self.critic parameters
    target_critic,       \* self.target_critic parameters
    critic_grad,         \* accumulated .grad of the critic parameters
    critic_requires_grad,\* requires_grad flag of the critic parameters
    critic_optimizer,    \* state of self.critic_optimizer (sign of the gradient last stepped on)
    niter,               \* self.niter
    dev,                 \* [Roles -> DeviceArgs]: pol_dev, critic_dev, trgt_pol_dev, trgt_critic_dev
    at,                  \* [Roles -> Devices]: device the role's networks reside on
    training,            \* [Roles -> BOOLEAN]: nn.Module.training of the role's networks
    ckpt,                \* the checkpoint file: {} or {save_dict}
    episode,             \* episode value returned by the last init_from_save
    writer,              \* [{"target_policy","target_critic"} -> name of the function that last wrote it]
    pc,                  \* position of the training loop inside one iteration
    critic_stepped,      \* critic optimizer stepped in the current iteration
    pol_stepped,         \* agents whose policy optimizer stepped in the current iteration
    last,                \* the last engine call: op, device arg, flag arg, outcome, roles transferred
    bt,                  \* one batch and the critic loss computed from it (SpecBellman)
    pb                   \* one agent's policy outputs and the policy loss computed from them (SpecPolicy)

vars == <<policy, target_policy, critic, target_critic, critic_grad,
          critic_requires_grad, critic_optimizer, niter, dev, at, training,
          ckpt, episode, writer, pc, critic_stepped, pol_stepped, last, bt, pb>>

netvars == <<policy, target_policy, critic, target_critic, critic_grad,
             critic_requires_grad, critic_optimizer>>
devvars == <<dev, at, training>>
loopvars == <<pc, critic_stepped, pol_stepped>>

\* ------------------------------------------------------------ collaborators
Sgn(x) == IF x > 0 THEN 1 ELSE IF x < 0 THEN 0 - 1 ELSE 0

\* utils.misc.hard_update: exact copy of the source parameters
hard_update(target, source) == source

\* utils.misc.soft_update: target <- (1-tau)*target + tau*source, tau in (0,1):
\* the target moves towards the source and stays put when they agree
soft_update(target, source) == target + Sgn(source - target)

\* utils.misc.disable_gradients / enable_gradients: requires_grad flag of every parameter
disable_gradients(flag) == FALSE
enable_gradients(flag) == TRUE

\* torch AccumulateGrad: backward adds g to .grad of a leaf that requires grad
AccumulateGrad(acc, requires_grad, g) == IF requires_grad THEN acc + g ELSE acc

\* optimizer.step(): one unit against the sign of the accumulated gradient
OptStep(p, g) == p - Sgn(g)

\* record of one engine call: its name, device argument, boolean argument
\* (logger given / load_critic), outcome, the roles it transferred, and
\* whether it repeats the previous call with the same device argument
Call(op, d, flag, status, moved) ==
    [op |-> op, dev |-> d, flag |-> flag, status |-> status, moved |-> moved,
     again |-> (last.op = op /\ last.dev = d)]

\* ------------------------------------------------------------ construction
\* RelationalSAC.__init__: fresh networks, targets hard-copied, all roles on cpu
InitEngine ==
    /\ policy = [a \in Agents |-> FreshParam]
    /\ target_policy = [a \in Agents |-> hard_update(FreshParam, FreshParam)]
    /\ critic = FreshParam
    /\ target_critic = hard_update(FreshParam, critic)
    /\ critic_grad = 0
    /\ critic_requires_grad = TRUE
    /\ critic_optimizer = 0
    /\ niter = 0
    /\ dev = [r \in Roles |-> "cpu"]
    /\ at = [r \in Roles |-> "cpu"]
    /\ training = [r \in Roles |-> TRUE]
    /\ writer = [r \in {"target_policy", "target_critic"} |-> "hard_update"]
    /\ episode = NoEpisode

\* ------------------------------------------------- batch values (SpecBellman)
Rewards == {0, 3}
NextQs == {0 - 1, 2}
LogPis == {0 - 2, 0}
CriticRets == {0, 1}

NoBatch ==
    [computed |-> FALSE, soft |-> TRUE,
     rews |-> [a \in Agents |-> 0], dones |-> [a \in Agents |-> 0],
     next_qs |-> [a \in Agents |-> 0], next_log_pis |-> [a \in Agents |-> 0],
     critic_rets |-> [a \in Agents |-> 0],
     target_q |-> [a \in Agents |-> 0], q_loss |-> 0]

\* --------------------------------------- policy outputs (SpecPolicy)
Actions == 0 .. (NActions - 1)
\* probabilities are numerators over ProbDen
ProbDen == NActions
QVals == {0 - 1, 0, 2}
NegLogPis == {0 - 2, 0 - 1}
RegSums == {0, 4}

NoPolBatch ==
    [computed |-> FALSE, agent |-> 0, soft |-> TRUE, ac |-> 0,
     all_q |-> [x \in Actions |-> 0], probs |-> [x \in Actions |-> 0],
     log_pi |-> 0, reg |-> 0, v |-> 0, pol_target |-> 0,
     pol_loss_unreg |-> 0, pol_loss |-> 0]

Init ==
    /\ InitEngine
    /\ ckpt = {}
    /\ pc = "idle"
    /\ critic_stepped = FALSE
    /\ pol_stepped = {}
    /\ last = [op |-> "__init__", dev |-> "cpu", flag |-> FALSE, status |-> "ok",
               moved |-> {}, again |-> FALSE]
    /\ bt = NoBatch
    /\ pb = NoPolBatch

\* ------------------------------------------------- training loop (caller)
\* One iteration of the trainer: update_critic, update_policies,
\* update_all_targets; every other engine call happens between iterations.
LoopAllows(op) ==
    CASE op = "update_critic" -> pc = "idle"
      [] op = "update_policies" -> pc = "critic_done"
      [] op = "update_all_targets" -> pc = "policies_done"
      [] OTHER -> pc = "idle"

AbortIteration ==
    /\ pc' = "idle"
    /\ critic_stepped' = FALSE
    /\ pol_stepped' = {}

\* ---------------------------------------------------------- update_critic
\* every network the forward passes use, and the batch, sit on one device
SameDevice(roles, sample_dev) ==
    \A r \in roles : at[r] = sample_dev

\* lines 139-150 with the optimizer step left out
update_critic_commit_nostep(cg) ==
    /\ critic_optimizer' = Sgn(cg)
    /\ critic_grad' = 0
    /\ niter' = niter + 1
    /\ critic_stepped' = FALSE
    /\ UNCHANGED <<policy, target_policy, critic, target_critic, critic_requires_grad>>

\* lines 139-150 with the optimizer built over the target critic's parameters
update_critic_commit_target(cg) ==
    /\ OptStep(target_critic, cg) \in Params
    /\ target_critic' = OptStep(target_critic, cg)
    /\ critic_optimizer' = Sgn(cg)
    /\ critic_grad' = 0
    /\ niter' = niter + 1
    /\ critic_stepped' = TRUE
    /\ UNCHANGED <<policy, target_policy, critic, critic_requires_grad>>

\* lines 139-150: rescale and clip, one optimizer step, zero the gradients,
\* count the iteration
update_critic_commit(cg) ==
    /\ OptStep(critic, cg) \in Params
    /\ critic' = OptStep(critic, cg)         \* critic_optimizer.step()
    /\ critic_optimizer' = Sgn(cg)
    /\ critic_grad' = 0                      \* critic_optimizer.zero_grad()
    /\ niter' = niter + 1
    /\ critic_stepped' = TRUE
    /\ UNCHANGED <<policy, target_policy, target_critic, critic_requires_grad>>

update_critic(sample_dev, logger, g) ==
    /\ LoopAllows("update_critic")
    /\ niter < MaxIter
    /\ IF ~SameDevice({"target_policy", "critic", "target_critic"}, sample_dev)
       THEN \* forward pass mixes devices: raises before any state is touched
            /\ last' = Call("update_critic", sample_dev, logger, "RuntimeError", {})
            /\ AbortIteration
            /\ UNCHANGED <<netvars, niter>>
       ELSE IF ~critic_requires_grad
       THEN \* line 130: q_loss carries no gradient when every critic parameter
            \* is frozen, and q_loss.backward() raises
            /\ last' = Call("update_critic", sample_dev, logger, "RuntimeError", {})
            /\ AbortIteration
            /\ UNCHANGED <<netvars, niter>>
       ELSE LET cg == AccumulateGrad(critic_grad, critic_requires_grad, g)  \* q_loss.backward()
            IN  IF ~logger
                THEN \* line 134: logger.add_scalar on None raises AttributeError
                     /\ cg \in (0 - GradMax) .. GradMax
                     /\ critic_grad' = cg
                     /\ last' = Call("update_critic", sample_dev, logger, "AttributeError", {})
                     /\ AbortIteration
                     /\ UNCHANGED <<policy, target_policy, critic, target_critic,
                                    critic_requires_grad, critic_optimizer, niter>>
                ELSE /\ update_critic_commit(cg)
                     /\ last' = Call("update_critic", sample_dev, logger, "ok", {})
                     /\ pc' = "critic_done"
                     /\ pol_stepped' = {}
    /\ UNCHANGED <<devvars, ckpt, episode, writer, bt, pb>>

\* -------------------------------------------------------- update_policies
\* gradient of pol_loss on the critic parameters: the critic's values enter
\* the loss only through .detach() (lines 180, 182)
CriticGradOfPolLoss == 0

\* the critic's .grad after the backward passes of agents n-1 .. 0, each
\* run between disable_gradients and enable_gradients
RECURSIVE PolBackwardCritic(_, _, _)
PolBackwardCritic(acc, flag, n) ==
    IF n = 0 THEN acc
    ELSE PolBackwardCritic(
             AccumulateGrad(acc, disable_gradients(flag), CriticGradOfPolLoss),
             enable_gradients(disable_gradients(flag)), n - 1)

\* lines 173-193 with critic_optimizer.step() in place of the agents' optimizers
update_policies_commit_critic(gs) ==
    /\ critic' = OptStep(critic, gs[0])
    /\ critic_grad' = PolBackwardCritic(critic_grad, critic_requires_grad, NAgents)
    /\ critic_requires_grad' = enable_gradients(critic_requires_grad)
    /\ pol_stepped' = {}
    /\ UNCHANGED <<policy, target_policy, target_critic, critic_optimizer, critic_stepped>>

\* lines 173-193: per agent, the gated backward pass, clipping, one step of
\* that agent's optimizer, zeroing of its gradients
update_policies_commit(gs) ==
    /\ \A a \in Agents : OptStep(policy[a], gs[a]) \in Params
    /\ policy' = [a \in Agents |-> OptStep(policy[a], gs[a])]  \* policy_optimizer.step()
    /\ critic_grad' = PolBackwardCritic(critic_grad, critic_requires_grad, NAgents)
    /\ critic_requires_grad' = enable_gradients(critic_requires_grad)
    /\ pol_stepped' = Agents
    /\ UNCHANGED <<target_policy, critic, target_critic, critic_optimizer, critic_stepped>>

\* lines 173-193 when pol_loss.backward() of agent k raises (line 187): the
\* agents before k have taken their step, the critic was frozen on line 186
\* and line 188 is never reached
update_policies_raise(gs, k) ==
    /\ \A a \in Agents : a < k => OptStep(policy[a], gs[a]) \in Params
    /\ policy' = [a \in Agents |-> IF a < k THEN OptStep(policy[a], gs[a]) ELSE policy[a]]
    /\ critic_grad' = PolBackwardCritic(critic_grad, critic_requires_grad, k)
    /\ critic_requires_grad' = disable_gradients(critic_requires_grad)
    /\ UNCHANGED <<target_policy, critic, target_critic, critic_optimizer>>

\* fail: the agent whose backward pass raises, NAgents when none does
update_policies(sample_dev, logger, gs, fail) ==
    /\ LoopAllows("update_policies")
    /\ IF ~SameDevice({"policy", "critic"}, sample_dev)
       THEN /\ last' = Call("update_policies", sample_dev, logger, "RuntimeError", {})
            /\ AbortIteration
            /\ UNCHANGED netvars
       ELSE IF ~logger
       THEN \* line 163: logger.add_scalar on None raises AttributeError
            /\ last' = Call("update_policies", sample_dev, logger, "AttributeError", {})
            /\ AbortIteration
            /\ UNCHANGED netvars
       ELSE IF fail \in Agents
       THEN /\ update_policies_raise(gs, fail)
            /\ last' = Call("update_policies", sample_dev, logger, "BackwardError", {})
            /\ AbortIteration
       ELSE /\ update_policies_commit(gs)
            /\ last' = Call("update_policies", sample_dev, logger, "ok", {})
            /\ pc' = "policies_done"
    /\ UNCHANGED <<niter, devvars, ckpt, episode, writer, bt, pb>>

\* ----------------------------------------------------- update_all_targets
update_all_targets ==
    /\ LoopAllows("update_all_targets")
    /\ target_critic' = soft_update(target_critic, critic)
    /\ target_policy' = [a \in Agents |-> soft_update(target_policy[a], policy[a])]
    /\ writer' = [r \in {"target_policy", "target_critic"} |-> "soft_update"]
    /\ last' = Call("update_all_targets", "cpu", FALSE, "ok", {})
    /\ pc' = "idle"
    /\ UNCHANGED <<policy, critic, critic_grad, critic_requires_grad, critic_optimizer,
                   niter, devvars, ckpt, episode, critic_stepped, pol_stepped, bt, pb>>

\* ------------------------------------------------ device / mode management
\* fn = x.cuda() if device == 'gpu' else x.cpu()
Fn(device) == IF device = "gpu" THEN "gpu" ELSE "cpu"

\* every requested role is transferred, whatever its tracked placement
MovedBy_always(roles, device) == roles

\* roles among `roles` whose tracked placement differs from the request
MovedBy(roles, device) == {r \in roles : ~(dev[r] = device)}

DevAfter(roles, device) ==
    [r \in Roles |-> IF r \in MovedBy(roles, device) THEN device ELSE dev[r]]

AtAfter(roles, device) ==
    [r \in Roles |-> IF r \in MovedBy(roles, device) THEN Fn(device) ELSE at[r]]

prep_training(device) ==
    /\ LoopAllows("prep_training")
    /\ training' = [r \in Roles |-> TRUE]
    /\ dev' = DevAfter(Roles, device)
    /\ at' = AtAfter(Roles, device)
    /\ last' = Call("prep_training", device, FALSE, "ok", MovedBy(Roles, device))
    /\ UNCHANGED <<netvars, niter, ckpt, episode, writer, loopvars, bt, pb>>

\* prep_rollouts moving every role, as prep_training does
prep_rollouts_all(device) ==
    /\ LoopAllows("prep_rollouts")
    /\ training' = [training EXCEPT !["policy"] = FALSE]
    /\ dev' = DevAfter(Roles, device)
    /\ at' = AtAfter(Roles, device)
    /\ last' = Call("prep_rollouts", device, FALSE, "ok", MovedBy(Roles, device))
    /\ UNCHANGED <<netvars, niter, ckpt, episode, writer, loopvars, bt, pb>>

prep_rollouts(device) ==
    /\ LoopAllows("prep_rollouts")
    /\ training' = [training EXCEPT !["policy"] = FALSE]
    /\ dev' = DevAfter({"policy"}, device)
    /\ at' = AtAfter({"policy"}, device)
    /\ last' = Call("prep_rollouts", device, FALSE, "ok", MovedBy({"policy"}, device))
    /\ UNCHANGED <<netvars, niter, ckpt, episode, writer, loopvars, bt, pb>>

\* ------------------------------------------------------------ checkpointing
\* utils.agents.AttentionAgent.get_params
get_params(a) == [policy |-> policy[a], target_policy |-> target_policy[a]]

\* prep_training called with its default device
save_device_default == "gpu"

\* utils.agents.AttentionAgent.load_params: the networks an agent takes from
\* its entry of the checkpoint
load_params(params) ==
    [policy |-> params.policy, target_policy |-> params.target_policy]

\* the device save moves every network to before writing (line 253)
save_device == "cpu"

save(e) ==
    /\ LoopAllows("save")
    \* self.prep_training(device='cpu')
    /\ training' = [r \in Roles |-> TRUE]
    /\ dev' = DevAfter(Roles, save_device)
    /\ at' = AtAfter(Roles, save_device)
    /\ ckpt' = {[agent_params |-> [a \in Agents |-> get_params(a)],
                 critic |-> critic,
                 target_critic |-> target_critic,
                 critic_optimizer |-> critic_optimizer,
                 episode |-> e,
                 devices |-> {AtAfter(Roles, save_device)[r] : r \in Roles}]}
    /\ last' = Call("save", save_device, FALSE, "ok", MovedBy(Roles, save_device))
    /\ UNCHANGED <<netvars, niter, episode, writer, loopvars, bt, pb>>

Saved == CHOOSE c \in ckpt : TRUE

\* the critic is restored whatever load_critic says
restores_critic_always(load_critic) == TRUE

\* line 329: the critic, target critic and critic optimizer are restored
\* only when load_critic is set
restores_critic(load_critic) == load_critic

init_from_save(load_critic) ==
    /\ LoopAllows("init_from_save")
    /\ ckpt # {}
    \* instance = cls(**save_dict['init_dict']); a.load_params(params)
    /\ policy' = [a \in Agents |-> load_params(Saved.agent_params[a]).policy]
    /\ target_policy' = [a \in Agents |-> load_params(Saved.agent_params[a]).target_policy]
    /\ critic' = IF restores_critic(load_critic) THEN Saved.critic ELSE FreshParam
    /\ target_critic' = IF restores_critic(load_critic) THEN Saved.target_critic
                        ELSE hard_update(FreshParam, FreshParam)
    /\ critic_optimizer' = IF restores_critic(load_critic) THEN Saved.critic_optimizer ELSE 0
    /\ critic_grad' = 0
    /\ critic_requires_grad' = TRUE
    /\ niter' = 0
    /\ training' = [r \in Roles |-> TRUE]
    \* the placement flags are set; only the critics are moved (.to('cuda'))
    /\ dev' = [r \in Roles |->
                IF r \in {"policy", "target_policy"} \/ restores_critic(load_critic) THEN "gpu" ELSE "cpu"]
    /\ at' = [r \in Roles |->
                IF r \in {"critic", "target_critic"} /\ restores_critic(load_critic) THEN "gpu" ELSE "cpu"]
    /\ writer' = [r \in {"target_policy", "target_critic"} |->
                    IF r = "target_policy" THEN "load_params"
                    ELSE IF restores_critic(load_critic) THEN "load_state_dict" ELSE "hard_update"]
    /\ episode' = LoadedEpisode
    /\ last' = Call("init_from_save", "cuda", load_critic, "ok",
                    IF restores_critic(load_critic) THEN {"critic", "target_critic"} ELSE {})
    /\ pc' = "idle"
    /\ critic_stepped' = FALSE
    /\ pol_stepped' = {}
    /\ UNCHANGED <<ckpt, bt, pb>>

\* -------------------------------------------------------------------- Spec
Next ==
    \/ \E d \in Devices, logger \in BOOLEAN, g \in GradVals : update_critic(d, logger, g)
    \/ \E d \in Devices, logger \in BOOLEAN, gs \in [Agents -> GradVals], fail \in 0 .. NAgents :
           update_policies(d, logger, gs, fail)
    \/ update_all_targets
    \/ \E d \in DeviceArgs : prep_training(d)
    \/ \E d \in DeviceArgs : prep_rollouts(d)
    \/ \E e \in Episodes : save(e)
    \/ \E lc \in BOOLEAN : init_from_save(lc)

Spec == Init /\ [][Next]_vars

\* ------------------------------------------- critic loss (lines 120-128)
\* Values are carried in units of 1/GammaDen, so that gamma = GammaNum/GammaDen
\* and log_pi / reward_scale stay integral.

\* target with the done mask applied the wrong way round
TargetQ_masked_by_done(r, nq, done, log_pi, soft) ==
    (GammaDen * r + GammaNum * nq * done)
      - (IF soft THEN (GammaDen \div RewardScale) * log_pi ELSE 0)

\* target_q = rews + gamma * nq * (1 - dones); if soft: target_q -= log_pi / reward_scale
TargetQ(r, nq, done, log_pi, soft) ==
    (GammaDen * r + GammaNum * nq * (1 - done))
      - (IF soft THEN (GammaDen \div RewardScale) * log_pi ELSE 0)

\* MSELoss(pq, target_q) on a batch of one transition, in units of 1/GammaDen^2
MSELoss(pq, y) == (GammaDen * pq - y) * (GammaDen * pq - y)

RECURSIVE SumLoss(_, _, _)
SumLoss(pqs, ys, n) ==
    IF n = 0 THEN 0
    ELSE SumLoss(pqs, ys, n - 1) + MSELoss(pqs[n - 1], ys[n - 1])

Batches ==
    [computed : {FALSE}, soft : BOOLEAN,
     rews : [Agents -> Rewards], dones : [Agents -> {0, 1}],
     next_qs : [Agents -> NextQs], next_log_pis : [Agents -> LogPis],
     critic_rets : [Agents -> CriticRets],
     target_q : {[a \in Agents |-> 0]}, q_loss : {0}]

\* the q_loss loop of update_critic on the batch bt
critic_loss ==
    /\ ~bt.computed
    /\ LET ys == [a \in Agents |->
                    TargetQ(bt.rews[a], bt.next_qs[a], bt.dones[a],
                            bt.next_log_pis[a], bt.soft)]
       IN bt' = [bt EXCEPT !.computed = TRUE,
                           !.target_q = ys,
                           !.q_loss = SumLoss(bt.critic_rets, ys, NAgents)]
    /\ UNCHANGED <<netvars, niter, devvars, ckpt, episode, writer, loopvars, last, pb>>

InitBellman ==
    /\ InitEngine
    /\ ckpt = {}
    /\ pc = "idle"
    /\ critic_stepped = FALSE
    /\ pol_stepped = {}
    /\ last = [op |-> "__init__", dev |-> "cpu", flag |-> FALSE, status |-> "ok",
               moved |-> {}, again |-> FALSE]
    /\ bt \in Batches
    /\ pb = NoPolBatch

NextBellman == critic_loss

SpecBellman == InitBellman /\ [][NextBellman]_vars

\* ------------------------------------------- policy loss (lines 173-184)
\* One agent's pass through the loss loop of update_policies.  Values are
\* carried as integers: v and pol_target in units of 1/ProbDen, the loss
\* without regularization in units of 1/(RewardScale * ProbDen), the full
\* loss in units of 1/(RegDen * RewardScale * ProbDen).
RegDen == 1000

\* the critic's q for the sampled joint action is the entry of all_q at the
\* agent's sampled action
CriticQ(all_q, ac) == all_q[ac]

\* v = (all_q * probs).sum(dim=1), times ProbDen
RECURSIVE Baseline(_, _, _)
Baseline(all_q, probs, n) ==
    IF n = 0 THEN 0
    ELSE Baseline(all_q, probs, n - 1) + all_q[n - 1] * probs[n - 1]

\* advantage with the baseline left out
PolTarget_no_baseline(q, v) == ProbDen * q

\* pol_target = q - v, times ProbDen
PolTarget(q, v) == ProbDen * q - v

\* soft:  (log_pi * (log_pi / reward_scale - pol_target).detach()).mean()
\* else:  (log_pi * (-pol_target).detach()).mean()
\* on a batch of one transition, times RewardScale * ProbDen
PolLoss(log_pi, pol_target, soft) ==
    IF soft THEN log_pi * (ProbDen * log_pi - RewardScale * pol_target)
    ELSE log_pi * (0 - RewardScale * pol_target)

\* pol_loss += 1e-3 * reg for every regularization term (reg: their sum)
AddRegs(loss, reg) == RegDen * loss + RewardScale * ProbDen * reg

\* probability vectors over the actions
ProbVectors == {pr \in [Actions -> 0 .. ProbDen] : Baseline([x \in Actions |-> 1], pr, NActions) = ProbDen}

\* what an agent's policy and the critic hand to the loss loop: the sampled
\* action has positive probability and its log-probability is 0 exactly
\* when that probability is 1
PolBatches ==
    {b \in [computed : {FALSE}, agent : Agents, soft : BOOLEAN, ac : Actions,
            all_q : [Actions -> QVals], probs : ProbVectors,
            log_pi : NegLogPis \cup {0}, reg : RegSums, v : {0}, pol_target : {0},
            pol_loss_unreg : {0}, pol_loss : {0}] :
        /\ b.probs[b.ac] > 0
        /\ (b.log_pi = 0) <=> (b.probs[b.ac] = ProbDen)}

policy_loss ==
    /\ ~pb.computed
    /\ LET v == Baseline(pb.all_q, pb.probs, NActions)
           pol_target == PolTarget(CriticQ(pb.all_q, pb.ac), v)
           loss == PolLoss(pb.log_pi, pol_target, pb.soft)
       IN pb' = [pb EXCEPT !.computed = TRUE,
                           !.v = v,
                           !.pol_target = pol_target,
                           !.pol_loss_unreg = loss,
                           !.pol_loss = AddRegs(loss, pb.reg)]
    /\ UNCHANGED <<netvars, niter, devvars, ckpt, episode, writer, loopvars, last, bt>>

InitPolicy ==
    /\ InitEngine
    /\ ckpt = {}
    /\ pc = "idle"
    /\ critic_stepped = FALSE
    /\ pol_stepped = {}
    /\ last = [op |-> "__init__", dev |-> "cpu", flag |-> FALSE, status |-> "ok",
               moved |-> {}, again |-> FALSE]
    /\ bt = NoBatch
    /\ pb \in PolBatches

NextPolicy == policy_loss

SpecPolicy == InitPolicy /\ [][NextPolicy]_vars

\* ===================================================================== claims
Targets == {"target_policy", "target_critic"}

C2_GradientIsolation ==
    [][(last'.op = "update_policies" /\ last'.status = "ok")
         => /\ critic' = critic
            /\ critic_grad' = critic_grad
            /\ critic_requires_grad' = critic_requires_grad
            /\ critic_optimizer' = critic_optimizer
            /\ target_critic' = target_critic
            /\ target_policy' = target_policy
            /\ niter' = niter
            /\ policy' # policy]_vars

C2_Witness ==
    /\ last.op = "update_policies"
    /\ last.status = "ok"
    /\ \A a \in Agents : policy[a] # target_policy[a]
    /\ critic # FreshParam

\* C3 as stated: the target networks' parameters are written by hard_update
\* and soft_update only.
C3_OnlySynchronizerWrites ==
    \A r \in Targets : writer[r] \in {"hard_update", "soft_update"}

\* C3 amended: the target networks' parameters change only in
\* update_all_targets (soft_update) or in init_from_save (hard_update at
\* construction, then load_params / load_state_dict from the checkpoint);
\* no optimizer step and no other operation changes them.
C3_TargetsWrittenBySyncOrRestore ==
    [][/\ (target_critic' # target_critic \/ target_policy' # target_policy)
            => last'.op \in {"update_all_targets", "init_from_save"}
       /\ last'.op = "update_all_targets"
            => \A r \in Targets : writer'[r] = "soft_update"
       /\ last'.op \notin {"update_all_targets", "init_from_save"}
            => writer' = writer]_vars

C3_Witness ==
    /\ last.op = "init_from_save"
    /\ last.flag
    /\ writer["target_critic"] = "load_state_dict"
    /\ writer["target_policy"] = "load_params"
    /\ target_critic # FreshParam

\* C4: prep_rollouts leaves the critic, the target critic and the target
\* policies untouched: tracked placement, residence, train/eval mode and
\* parameters.
C4_RolloutFrame ==
    [][last'.op = "prep_rollouts"
         => /\ \A r \in Roles \ {"policy"} :
                 /\ dev'[r] = dev[r]
                 /\ at'[r] = at[r]
                 /\ training'[r] = training[r]
            /\ UNCHANGED <<critic, target_critic, target_policy, critic_grad,
                           critic_requires_grad, critic_optimizer, policy>>]_vars

C4_Witness ==
    /\ last.op = "prep_rollouts"
    /\ last.moved = {"policy"}
    /\ dev["policy"] = "cpu"
    /\ dev["critic"] = "gpu"
    /\ at["target_policy"] = "gpu"
    /\ ~training["policy"]

\* C5: a mode transition transfers a role only if its tracked placement is
\* not the requested device, and repeating prep_rollouts(d) or
\* prep_training(d) transfers nothing and changes nothing.
C5_IdempotentTransitions ==
    [][last'.op \in {"prep_rollouts", "prep_training"}
         => /\ \A r \in last'.moved : dev[r] # last'.dev
            /\ last'.again
                 => /\ last'.moved = {}
                    /\ UNCHANGED <<dev, at, training, netvars, niter>>]_vars

C5_Witness ==
    /\ last.op = "prep_rollouts"
    /\ last.again
    /\ last.moved = {}
    /\ last.dev = "gpu"
    /\ at["policy"] = "gpu"

\* C6: when save writes the artifact and when it returns, all four roles are
\* placed on, and reside on, the cpu.
C6_SaveOnHost ==
    /\ last.op = "save" => \A r \in Roles : dev[r] = "cpu" /\ at[r] = "cpu"
    /\ \A c \in ckpt : c.devices = {"cpu"}

C6_Witness ==
    /\ last.op = "save"
    /\ last.moved = Roles
    /\ ~last.again
    /\ \A c \in ckpt : c.critic # FreshParam

\* C7: init_from_save(load_critic=True) returns the episode number that was
\* given to save.
C7_EpisodeRoundTrip ==
    (last.op = "init_from_save" /\ last.flag) => episode = Saved.episode

\* C8: init_from_save restores every agent's policy from the checkpoint;
\* with load_critic it restores critic, target critic and critic optimizer
\* from the checkpoint; without it they are as freshly constructed and
\* their tracked placement stays cpu.
C8_RestoreSelective ==
    last.op = "init_from_save"
      => /\ \A a \in Agents : policy[a] = Saved.agent_params[a].policy
         /\ last.flag
              => /\ critic = Saved.critic
                 /\ target_critic = Saved.target_critic
                 /\ critic_optimizer = Saved.critic_optimizer
         /\ ~last.flag
              => /\ critic = FreshParam
                 /\ target_critic = FreshParam
                 /\ critic_optimizer = 0
                 /\ dev["critic"] = "cpu"
                 /\ dev["target_critic"] = "cpu"

C8_Witness ==
    /\ last.op = "init_from_save"
    /\ ~last.flag
    /\ Saved.critic # FreshParam
    /\ Saved.critic_optimizer # 0
    /\ \A a \in Agents : policy[a] # FreshParam

\* C9: update_critic and update_policies called without a logger complete
\* normally and leave no accumulated gradient on the critic.
C9_NoLoggerCompletes ==
    (last.op \in {"update_critic", "update_policies"}
       /\ ~last.flag /\ last.status # "RuntimeError")
      => (last.status = "ok" /\ critic_grad = 0)

\* C10 as stated: for a transition whose done flag is 1 the Bellman target
\* is the reward alone.
C10_DoneTargetIsReward ==
    bt.computed
      => \A a \in Agents : bt.dones[a] = 1 => bt.target_q[a] = GammaDen * bt.rews[a]

\* the target of agent a when its done flag is 1
DoneTarget(a) ==
    GammaDen * bt.rews[a]
      - (IF bt.soft THEN (GammaDen \div RewardScale) * bt.next_log_pis[a] ELSE 0)

\* C10 amended: for a transition whose done flag is 1 the discounted
\* next-value term vanishes; the target is reward_i when soft is false and
\* reward_i - log_pi_i / reward_scale when soft is true, and the agent's
\* loss term is the squared error against that target.
C10_DoneTarget ==
    bt.computed
      => /\ \A a \in Agents : bt.dones[a] = 1 => bt.target_q[a] = DoneTarget(a)
         /\ (\A a \in Agents : bt.dones[a] = 1)
              => bt.q_loss = SumLoss(bt.critic_rets, [a \in Agents |-> DoneTarget(a)], NAgents)

C10_Witness ==
    /\ bt.computed
    /\ bt.soft
    /\ \A a \in Agents : bt.dones[a] = 1 /\ bt.next_qs[a] # 0
    /\ bt.next_log_pis[0] # 0
    /\ bt.q_loss # 0

\* the agent's action probabilities are uniform and its counterfactual
\* values all agree
UniformAndFlat ==
    /\ \A x \in Actions : pb.probs[x] * NActions = ProbDen
    /\ \A x, y \in Actions : pb.all_q[x] = pb.all_q[y]

\* C11 as stated: with uniform action probabilities and identical all_q the
\* baseline is the common value, the advantage is 0 and the policy loss
\* without its regularization terms is 0.
C11_UniformLossIsZero ==
    (pb.computed /\ UniformAndFlat)
      => /\ pb.v = ProbDen * pb.all_q[0]
         /\ pb.pol_target = 0
         /\ pb.pol_loss_unreg = 0

\* C11 amended: with uniform action probabilities and identical all_q the
\* baseline is the common value and the advantage is 0; the policy loss
\* without its regularization terms is 0 when soft is false and
\* log_pi^2 / reward_scale when soft is true, and the full loss adds only
\* the weighted regularization terms.
C11_UniformLoss ==
    (pb.computed /\ UniformAndFlat)
      => /\ pb.v = ProbDen * pb.all_q[0]
         /\ pb.pol_target = 0
         /\ pb.pol_loss_unreg = (IF pb.soft THEN ProbDen * pb.log_pi * pb.log_pi ELSE 0)
         /\ pb.pol_loss = RegDen * pb.pol_loss_unreg + RewardScale * ProbDen * pb.reg

C11_Witness ==
    /\ pb.computed
    /\ UniformAndFlat
    /\ pb.soft
    /\ pb.all_q[0] # 0
    /\ pb.log_pi # 0
    /\ pb.pol_loss_unreg # 0

\* C12: whenever update_policies is not inside an agent's backward pass -
\* before it, after it returns, after it aborts - the critic's parameters
\* have gradients enabled.
C12_GateReleased == critic_requires_grad

\* C13: each of the four tracked placements is the accelerator or the host
\* and equals the device its networks actually reside on.
C13_TrackedIsActual == \A r \in Roles : dev[r] \in Devices /\ dev[r] = at[r]

====
